---- MODULE Spec2Model ----
(***************************************************************************)
(* Model of script.py: duplicate the selected 3D views, rename each        *)
(* duplicate with a discipline prefix, assign the discipline's view         *)
(* template, all inside one host transaction.                               *)
(*                                                                          *)
(* A name is a sequence of one-character strings.  The document is the      *)
(* sequence of its views in element-id order; a view's id is its index.     *)
(* InvalidId (0) is the host's "no element" id.                             *)
(***************************************************************************)
EXTENDS Integers, Sequences, FiniteSets, TLC

VARIABLES
    doc,              \* the document's views as the script sees them
    committed,        \* the document as last committed (what a RollBack restores)
    doc0,             \* history: the document before the run
    pc,               \* position of main()
    sel_views,        \* ids returned by forms.select_views()
    system,           \* answer of forms.ask_for_one_item ("" = nothing chosen)
    prompted,         \* history: the prompts answered so far
    tx,               \* status of Transaction t
    view_idx,         \* position of `for view in sel_views`
    duplicated_count,
    duplicated_view,  \* id of the current duplicate
    fresh,            \* history: the duplicate as view.Duplicate returned it
    new_name,
    i,                \* loop variable of `for i in range(20)`
    collisions,       \* history: failed name assignments for the current duplicate
    renamed,          \* the rename loop left by `break`
    new_template,     \* id found by the template scan, InvalidId when none
    writes,           \* history: every property the script has set on a view
    console,          \* lines printed
    dialogs,          \* dialogs shown to the user
    exc               \* message of the exception caught at line 118 ("" = none)

vars == <<doc, committed, doc0, pc, sel_views, system, prompted, tx, view_idx,
          duplicated_count, duplicated_view, fresh, new_name, i, collisions,
          renamed, new_template, writes, console, dialogs, exc>>

\* ------------------------------------------------------------------ bounds
MaxViews == 2   \* views of the pool in an initial document
MaxSel == 2     \* views the user selects
MaxLen == 3     \* length of the enumerated source names

\* --------------------------------------------------------- program constants
MaxAttempts == 20
InvalidId == 0

options == <<"Architectural", "Mechanical", "Plumbing", "Fire Protection", "Electrical">>

ARCHITECTURE_GLUE ==
    <<"A","R","C","H","I","T","E","C","T","U","R","E"," ","G","L","U","E">>
MECHANICAL_GLUE ==
    <<"M","E","C","H","A","N","I","C","A","L"," ","G","L","U","E">>
PLUMBING_GLUE ==
    <<"P","L","U","M","B","I","N","G"," ","G","L","U","E">>
FIRE_PROTECTION_GLUE ==
    <<"F","I","R","E"," ","P","R","O","T","E","C","T","I","O","N"," ","G","L","U","E">>
ELECTRICAL_GLUE ==
    <<"E","L","E","C","T","R","I","C","A","L"," ","G","L","U","E">>

system_mapping(s) ==
    CASE s = "Architectural"   -> [prefix |-> <<"A","_">>,     template |-> ARCHITECTURE_GLUE]
      [] s = "Mechanical"      -> [prefix |-> <<"M","D","_">>, template |-> MECHANICAL_GLUE]
      [] s = "Plumbing"        -> [prefix |-> <<"P","L","_">>, template |-> PLUMBING_GLUE]
      [] s = "Fire Protection" -> [prefix |-> <<"F","P","_">>, template |-> FIRE_PROTECTION_GLUE]
      [] s = "Electrical"      -> [prefix |-> <<"E","E","_">>, template |-> ELECTRICAL_GLUE]

prefix == system_mapping(system).prefix
template_name == system_mapping(system).template

\* ------------------------------------------------------------ pure helpers
Range(s) == {s[k] : k \in 1..Len(s)}

Min(a, b) == IF a < b THEN a ELSE b

\* '*' repeated n times
RECURSIVE Stars(_)
Stars(n) == IF n = 0 THEN <<>> ELSE Append(Stars(n - 1), "*")

\* str.find(c), scanning from position `from` (0-based); -1 when absent
RECURSIVE FindFrom(_, _, _)
FindFrom(s, c, from) ==
    IF from >= Len(s) THEN -1
    ELSE IF s[from + 1] = c THEN from
    ELSE FindFrom(s, c, from + 1)

find(s, c) == FindFrom(s, c, 0)

\* str.rfind(c): the LAST occurrence
RECURSIVE RFindFrom(_, _, _)
RFindFrom(s, c, from) ==
    IF from < 0 THEN -1
    ELSE IF s[from + 1] = c THEN from
    ELSE RFindFrom(s, c, from - 1)

\* s[k:]
SliceFrom(s, k) == SubSeq(s, k + 1, Len(s))

ComputeNewName_rfind(pfx, old_name) ==
    LET underscore_index == RFindFrom(old_name, "_", Len(old_name) - 1)
    IN  IF underscore_index # -1
        THEN pfx \o SliceFrom(old_name, underscore_index + 1)
        ELSE pfx \o old_name

\* lines 77-83: the candidate name of the duplicate
ComputeNewName(pfx, old_name) ==
    LET underscore_index == find(old_name, "_")
    IN  IF underscore_index # -1
        THEN pfx \o SliceFrom(old_name, underscore_index + 1)
        ELSE pfx \o old_name

\* ----------------------------------------------------------------- the host
View(n, is3d) == [name |-> n, is3D |-> is3d, tmpl |-> InvalidId]

\* The host refuses a name another view of the same kind carries.
NameInUse(d, id, n) ==
    \E o \in 1..Len(d) : o # id /\ d[o].is3D = d[id].is3D /\ d[o].name = n

Digit(n) == <<"0","1","2","3","4","5","6","7","8","9">>[n + 1]

CopyName(n, k) == n \o <<" ","C","o","p","y"," ">> \o <<Digit(k)>>

\* The name the host gives a duplicate: "<source> Copy k", k the least free.
HostCopyName(d, src) ==
    LET free == {k \in 1..9 :
                   ~ \E o \in 1..Len(d) :
                        d[o].is3D = d[src].is3D /\ d[o].name = CopyName(d[src].name, k)}
    IN  CopyName(d[src].name, CHOOSE k \in free : \A m \in free : k <= m)

\* view.Duplicate(ViewDuplicateOption.Duplicate): a new view with the source's settings
HostDuplicate(d, src) ==
    Append(d, [name |-> HostCopyName(d, src), is3D |-> d[src].is3D, tmpl |-> d[src].tmpl])

\* lines 98-102, keeping the LAST view that carries the name
RECURSIVE LastMatchFrom(_, _, _)
LastMatchFrom(d, n, k) ==
    IF k < 1 THEN InvalidId
    ELSE IF d[k].name = n THEN k
    ELSE LastMatchFrom(d, n, k - 1)

FindTemplateByName_last(d, n) == LastMatchFrom(d, n, Len(d))

\* lines 95-102: scan FilteredElementCollector(doc).OfClass(View), stop at the first match
RECURSIVE ScanFrom(_, _, _)
ScanFrom(d, n, k) ==
    IF k > Len(d) THEN InvalidId
    ELSE IF d[k].name = n THEN k
    ELSE ScanFrom(d, n, k + 1)

FindTemplateByName(d, n) == ScanFrom(d, n, 1)

\* -------------------------------------------------------- initial documents
Pool == <<
    View(<<"X","_","V">>, TRUE),
    View(<<"V">>, TRUE),
    View(<<"P","_","V">>, FALSE),
    View(<<"A","r","c","h","i","t","e","c","t","u","r","e"," ","G","l","u","e">>, FALSE),
    View(ARCHITECTURE_GLUE, FALSE),
    View(ARCHITECTURE_GLUE, TRUE) >>

\* the views of the pool at the positions in S, in pool order
RECURSIVE Pick(_, _)
Pick(S, k) ==
    IF k > Len(Pool) THEN <<>>
    ELSE IF k \in S THEN <<Pool[k]>> \o Pick(S, k + 1)
    ELSE Pick(S, k + 1)

\* n 3D views named A_V, A_V*, A_V**, ...: the names a rename to A_V runs into
Blockers(n) == [k \in 1..n |-> View(<<"A","_","V">> \o Stars(k - 1), TRUE)]

BlockerCounts == {0, MaxAttempts - 1, MaxAttempts}

PoolDocs ==
    {Pick(S, 1) \o Blockers(n) :
        S \in {T \in SUBSET (1..Len(Pool)) : Cardinality(T) <= MaxViews},
        n \in BlockerCounts}

Alphabet == {"X", "_", "V"}

RECURSIVE Names(_)
Names(n) ==
    IF n = 0 THEN {<<>>}
    ELSE LET shorter == Names(n - 1)
         IN  shorter \cup {Append(s, c) : s \in {t \in shorter : Len(t) = n - 1}, c \in Alphabet}

ExampleNames == {
    <<"X","_","V","i","e","w","N","a","m","e">>,
    <<"V","i","e","w","N","a","m","e">>,
    <<"X","_","Y","_","Z">> }

\* documents of one 3D view, under every short name
NameDocs == {<<View(n, TRUE)>> : n \in (Names(MaxLen) \ {<<>>}) \cup ExampleNames}

\* the views offered for selection: the pool's and the first one after them
Pickable(d) == 1..Min(Len(d), MaxViews + 1)

\* forms.select_views(): up to MaxSel distinct views, in any order
Selections(d) ==
    UNION {{s \in [1..n -> Pickable(d)] : \A a, b \in 1..n : s[a] = s[b] => a = b} :
             n \in 0..MaxSel}

\* in a document of pool views the first may already use the second as its view template
Presets(d) ==
    {d} \cup (IF Len(d) >= 2 /\ Len(d) <= MaxViews THEN {[d EXCEPT ![1].tmpl = 2]} ELSE {})

NoDialog == <<>>
Alert(kind, count, msg) == [kind |-> kind, count |-> count, msg |-> msg]

Init ==
    /\ doc \in NameDocs \cup UNION {Presets(d) : d \in PoolDocs}
    /\ committed = doc
    /\ doc0 = doc
    /\ pc = "select_views"
    /\ sel_views = <<>>
    /\ system = ""
    /\ prompted = {}
    /\ tx = "none"
    /\ view_idx = 1
    /\ duplicated_count = 0
    /\ duplicated_view = InvalidId
    /\ fresh = View(<<>>, TRUE)
    /\ new_name = <<>>
    /\ i = 0
    /\ collisions = 0
    /\ renamed = FALSE
    /\ new_template = InvalidId
    /\ writes = <<>>
    /\ console = <<>>
    /\ dialogs = NoDialog
    /\ exc = ""


\* -------------------------------------------------------------- operations
PerViewErrors == {"Duplicate failed", "GetElement failed", "collector failed",
                  "ViewTemplateId failed"}

LoopVars == <<view_idx, duplicated_count, duplicated_view, fresh, new_name, i,
              collisions, renamed, new_template>>

exitscript_ignored(next) == next

\* lines 41, 48: forms.alert(..., exitscript=True) ends the script after the dialog
exitscript(next) == "done"

\* lines 37-41: the view picker; nothing selected -> alert and exit the script
SelectViews ==
    /\ pc = "select_views"
    /\ \E sel \in Selections(doc) :
         /\ sel_views' = sel
         /\ IF sel = <<>>
            THEN /\ dialogs' = Append(dialogs, Alert("No Views Selected", -1, ""))
                 /\ pc' = exitscript("ask_system")
            ELSE /\ dialogs' = dialogs
                 /\ pc' = "ask_system"
    /\ prompted' = prompted \cup {"views"}
    /\ UNCHANGED <<doc, committed, doc0, system, tx, LoopVars, writes, console, exc>>

\* lines 44-48: the discipline prompt; nothing chosen -> alert and exit the script
AskSystem ==
    /\ pc = "ask_system"
    /\ \E s \in Range(options) \cup {""} :
         /\ system' = s
         /\ IF s = ""
            THEN /\ dialogs' = Append(dialogs, Alert("No system selected", -1, ""))
                 /\ pc' = exitscript("start")
            ELSE /\ dialogs' = dialogs
                 /\ pc' = "start"
    /\ prompted' = prompted \cup {"system"}
    /\ UNCHANGED <<doc, committed, doc0, sel_views, tx, LoopVars, writes, console, exc>>

\* lines 64-67: t.Start(), duplicated_count = 0
StartTransaction ==
    /\ pc = "start"
    /\ tx' = "started"
    /\ duplicated_count' = 0
    /\ view_idx' = 1
    /\ pc' = "for_view"
    /\ UNCHANGED <<doc, committed, doc0, sel_views, system, prompted, duplicated_view,
                   fresh, new_name, i, collisions, renamed, new_template, writes,
                   console, dialogs, exc>>

isinstance_any(id) == TRUE

\* line 71: isinstance(view, View3D)
isinstance_View3D(id) == doc[id].is3D

ForView_commit_each ==
    /\ pc = "for_view"
    /\ committed' = doc
    /\ IF view_idx > Len(sel_views)
       THEN /\ pc' = "commit"
            /\ view_idx' = view_idx
       ELSE IF isinstance_View3D(sel_views[view_idx])
            THEN /\ pc' = "duplicate"
                 /\ view_idx' = view_idx
            ELSE /\ pc' = "for_view"
                 /\ view_idx' = view_idx + 1
    /\ UNCHANGED <<doc, doc0, sel_views, system, prompted, tx,
                   duplicated_count, duplicated_view, fresh, new_name, i, collisions,
                   renamed, new_template, writes, console, dialogs, exc>>

\* lines 70-71: the next selected view; a 3D view is processed, any other is skipped
ForView ==
    /\ pc = "for_view"
    /\ IF view_idx > Len(sel_views)
       THEN /\ pc' = "commit"
            /\ view_idx' = view_idx
       ELSE IF isinstance_View3D(sel_views[view_idx])
            THEN /\ pc' = "duplicate"
                 /\ view_idx' = view_idx
            ELSE /\ pc' = "for_view"
                 /\ view_idx' = view_idx + 1
    /\ UNCHANGED <<doc, committed, doc0, sel_views, system, prompted, tx,
                   duplicated_count, duplicated_view, fresh, new_name, i, collisions,
                   renamed, new_template, writes, console, dialogs, exc>>

\* an exception raised inside the try block: control goes to line 118
Raise(msg) ==
    /\ exc' = msg
    /\ pc' = "except"

\* lines 73-83: duplicate the view, fetch the duplicate, compute the candidate name
DuplicateView ==
    /\ pc = "duplicate"
    /\ LET view == sel_views[view_idx] IN
       \/ /\ doc' = HostDuplicate(doc, view)
          /\ duplicated_view' = Len(doc) + 1
          /\ fresh' = doc'[Len(doc) + 1]
          /\ new_name' = ComputeNewName(prefix, doc[view].name)
          /\ i' = 0
          /\ collisions' = 0
          /\ renamed' = FALSE
          /\ pc' = "rename"
          /\ exc' = exc
       \/ /\ \E msg \in {"Duplicate failed", "GetElement failed"} : Raise(msg)
          /\ UNCHANGED <<doc, duplicated_view, fresh, new_name, i, collisions, renamed>>
    /\ UNCHANGED <<committed, doc0, sel_views, system, prompted, tx, view_idx,
                   duplicated_count, new_template, writes, console, dialogs>>

RenameTarget_source == sel_views[view_idx]

\* line 88: the view whose Name is set
RenameTarget == duplicated_view

OnCollision_twice(n) == n \o <<"*", "*">>

\* line 92: new_name += '*'
OnCollision(n) == n \o <<"*">>

\* lines 86-92: one pass of `for i in range(20)`: set the name and break, or
\* (the host refused it) append an asterisk and go round again
TryRename ==
    /\ pc = "rename"
    /\ i < MaxAttempts
    /\ IF ~ NameInUse(doc, RenameTarget, new_name)
       THEN /\ doc' = [doc EXCEPT ![RenameTarget].name = new_name]
            /\ writes' = Append(writes, [id |-> RenameTarget, field |-> "Name",
                                         name |-> new_name, ref |-> InvalidId])
            /\ console' = Append(console, [line |-> "renamed",
                                           a |-> doc[sel_views[view_idx]].name,
                                           b |-> new_name])
            /\ renamed' = TRUE
            /\ pc' = "find_template"
            /\ UNCHANGED <<new_name, i, collisions>>
       ELSE /\ new_name' = OnCollision(new_name)
            /\ i' = i + 1
            /\ collisions' = collisions + 1
            /\ UNCHANGED <<doc, writes, console, renamed, pc>>
    /\ UNCHANGED <<committed, doc0, sel_views, system, prompted, tx, view_idx,
                   duplicated_count, duplicated_view, fresh, new_template, dialogs, exc>>

RenameExhausted_raise ==
    /\ pc = "rename"
    /\ i = MaxAttempts
    /\ Raise("name in use")
    /\ UNCHANGED <<doc, committed, doc0, sel_views, system, prompted, tx, LoopVars,
                   writes, console, dialogs>>

\* line 86: range(20) is used up; the loop ends without a break
RenameExhausted ==
    /\ pc = "rename"
    /\ i = MaxAttempts
    /\ pc' = "find_template"
    /\ UNCHANGED <<doc, committed, doc0, sel_views, system, prompted, tx, LoopVars,
                   writes, console, dialogs, exc>>

\* lines 95-102: look the template up by name
FindTemplate ==
    /\ pc = "find_template"
    /\ \/ /\ new_template' = FindTemplateByName(doc, template_name)
          /\ pc' = "assign_template"
          /\ exc' = exc
       \/ /\ Raise("collector failed")
          /\ new_template' = new_template
    /\ UNCHANGED <<doc, committed, doc0, sel_views, system, prompted, tx, view_idx,
                   duplicated_count, duplicated_view, fresh, new_name, i, collisions,
                   renamed, writes, console, dialogs>>

TemplateFound_always(t) == TRUE

\* line 105: `if new_template:`
TemplateFound(t) == t # InvalidId

\* lines 105-111: assign the template when one was found, print when not; count the view
AssignTemplate ==
    /\ pc = "assign_template"
    /\ \/ /\ TemplateFound(new_template)
          /\ doc' = [doc EXCEPT ![duplicated_view].tmpl = new_template]
          /\ writes' = Append(writes, [id |-> duplicated_view, field |-> "ViewTemplateId",
                                       name |-> <<>>, ref |-> new_template])
          /\ duplicated_count' = duplicated_count + 1
          /\ view_idx' = view_idx + 1
          /\ pc' = "for_view"
          /\ UNCHANGED <<console, exc>>
       \/ /\ TemplateFound(new_template)
          /\ Raise("ViewTemplateId failed")
          /\ UNCHANGED <<doc, writes, duplicated_count, view_idx, console>>
       \/ /\ ~ TemplateFound(new_template)
          /\ console' = Append(console, [line |-> "template not found",
                                         a |-> template_name, b |-> new_name])
          /\ duplicated_count' = duplicated_count + 1
          /\ view_idx' = view_idx + 1
          /\ pc' = "for_view"
          /\ UNCHANGED <<doc, writes, exc>>
    /\ UNCHANGED <<committed, doc0, sel_views, system, prompted, tx, duplicated_view,
                   fresh, new_name, i, collisions, renamed, new_template, dialogs>>

\* line 113: t.Commit()
Commit ==
    /\ pc = "commit"
    /\ \/ /\ committed' = doc
          /\ tx' = "committed"
          /\ pc' = "success_alert"
          /\ exc' = exc
       \/ /\ Raise("Commit failed")
          /\ UNCHANGED <<committed, tx>>
    /\ UNCHANGED <<doc, doc0, sel_views, system, prompted, LoopVars, writes, console,
                   dialogs>>

\* line 116: the summary dialog
SuccessAlert ==
    /\ pc = "success_alert"
    /\ dialogs' = Append(dialogs, Alert("views duplicated, renamed, and template applied.",
                                        duplicated_count, ""))
    /\ pc' = "done"
    /\ UNCHANGED <<doc, committed, doc0, sel_views, system, prompted, tx, LoopVars,
                   writes, console, exc>>

RollBack_missing == UNCHANGED <<doc, tx>>

\* line 120: t.RollBack() on the open transaction: the document is as last committed
RollBack ==
    /\ doc' = committed
    /\ tx' = "rolledback"

\* lines 118-121: t.RollBack(), then the error dialog.  RollBack on a transaction
\* that is not open raises, and nothing catches it.
Except ==
    /\ pc = "except"
    /\ IF tx = "started"
       THEN /\ RollBack
            /\ dialogs' = Append(dialogs, Alert("An error occurred: ", -1, exc))
            /\ pc' = "done"
       ELSE /\ pc' = "crashed"
            /\ UNCHANGED <<doc, tx, dialogs>>
    /\ UNCHANGED <<committed, doc0, sel_views, system, prompted, LoopVars, writes,
                   console, exc>>

Next ==
    \/ SelectViews
    \/ AskSystem
    \/ StartTransaction
    \/ ForView
    \/ DuplicateView
    \/ TryRename
    \/ RenameExhausted
    \/ FindTemplate
    \/ AssignTemplate
    \/ Commit
    \/ SuccessAlert
    \/ Except

Spec == Init /\ [][Next]_vars


\* ------------------------------------------------------------------ claims
Chosen == "system" \in prompted /\ system # ""

\* the selected 3D views, in selection order; duplicate j is element Len(doc0) + j
Sel3D == SelectSeq(sel_views, LAMBDA id : doc0[id].is3D)

\* the views created in this run
Created(d) == (Len(doc0) + 1)..Len(d)

NameWrites(id) == {k \in 1..Len(writes) : writes[k].id = id /\ writes[k].field = "Name"}
TemplateWrites == {k \in 1..Len(writes) : writes[k].field = "ViewTemplateId"}

ErrorDialog == Alert("An error occurred: ", -1, exc)
SummaryDialog(n) == Alert("views duplicated, renamed, and template applied.", n, "")

\* the source view of the duplicate in hand
CurrentSource == sel_views[view_idx]

C2_RollbackOnError ==
    (exc \in PerViewErrors) =>
        /\ pc \in {"except", "done"}
        /\ pc = "except" => tx = "started"
        /\ pc = "done" =>
              /\ tx = "rolledback"
              /\ doc = doc0
              /\ committed = doc0
              /\ dialogs = <<ErrorDialog>>

\* the second view's template assignment raised after the first view was
\* duplicated, renamed and given a template
C2_Witness ==
    /\ pc = "done"
    /\ exc = "ViewTemplateId failed"
    /\ view_idx = 2
    /\ TemplateWrites # {}
    /\ Len(writes) >= 3
    /\ doc = doc0

C4_PromptsFirst ==
    /\ (tx # "none" \/ doc # doc0 \/ committed # doc0 \/ writes # <<>>) =>
          /\ prompted = {"views", "system"}
          /\ sel_views # <<>>
          /\ system # ""
    /\ ("views" \in prompted /\ sel_views = <<>>) =>
          /\ pc = "done"
          /\ dialogs = <<Alert("No Views Selected", -1, "")>>
          /\ tx = "none"
    /\ ("system" \in prompted /\ system = "") =>
          /\ pc = "done"
          /\ dialogs = <<Alert("No system selected", -1, "")>>
          /\ tx = "none"

\* views were selected, no discipline was chosen
C4_Witness ==
    /\ pc = "done"
    /\ Len(sel_views) = 2
    /\ "system" \in prompted /\ system = ""
    /\ tx = "none"

\* C5: a rename that succeeds after k collisions (k < 20) leaves the duplicate
\* named the candidate followed by exactly k asterisks, the k shorter names
\* being the ones in use.
C5_OneStarPerCollision ==
    (pc \in {"find_template", "assign_template"} /\ renamed) =>
        LET candidate == ComputeNewName(prefix, doc0[CurrentSource].name) IN
        /\ collisions < MaxAttempts
        /\ doc[duplicated_view].name = candidate \o Stars(collisions)
        /\ \A k \in 0..(collisions - 1) :
              NameInUse(doc, duplicated_view, candidate \o Stars(k))

\* the second duplicate collided once, with the name given to the first
C5_Witness ==
    /\ pc = "find_template" /\ renamed
    /\ collisions = 1
    /\ view_idx = 2
    /\ duplicated_view = Len(doc0) + 2
    /\ doc[Len(doc0) + 1].name = ComputeNewName(prefix, doc0[CurrentSource].name)

\* C6: the name is tried at most 20 times; after 20 collisions the duplicate
\* is still in the document under the name duplication gave it, nothing was
\* raised, and the run goes on with the template lookup.
C6_ExhaustedKeepsName ==
    /\ collisions <= MaxAttempts
    /\ i <= MaxAttempts
    /\ exc \in PerViewErrors \cup {"", "Commit failed"}
    /\ pc = "rename" => exc = ""
    /\ (pc \in {"find_template", "assign_template"} /\ ~ renamed) =>
          /\ collisions = MaxAttempts
          /\ exc = ""
          /\ duplicated_view \in Created(doc)
          /\ doc[duplicated_view].name = fresh.name
          /\ NameWrites(duplicated_view) = {}

\* the first duplicate stayed unrenamed, the second view was processed, the run committed
C6_Witness ==
    /\ pc = "done"
    /\ tx = "committed"
    /\ duplicated_count = 2
    /\ NameWrites(Len(doc0) + 1) = {}
    /\ committed[Len(doc0) + 1].name = CopyName(doc0[Sel3D[1]].name, 1)

NoTemplateInDocument == \A id \in 1..Len(doc0) : doc0[id].name # template_name

\* C7: when no view carries the template name, the script sets no view
\* template, the missing template raises nothing, and a run that raised
\* nothing commits with every selected 3D view duplicated and counted.
C7_TemplateMissingNonFatal ==
    (Chosen /\ NoTemplateInDocument) =>
        /\ TemplateWrites = {}
        /\ exc # "ViewTemplateId failed"
        /\ pc = "assign_template" => new_template = InvalidId
        /\ (pc = "done" /\ exc = "") =>
              /\ tx = "committed"
              /\ duplicated_count = Len(Sel3D)
              /\ dialogs = <<SummaryDialog(Len(Sel3D))>>
              /\ Len(committed) = Len(doc0) + Len(Sel3D)
              /\ \A j \in 1..Len(Sel3D) :
                    committed[Len(doc0) + j].tmpl = doc0[Sel3D[j]].tmpl

C7_Witness ==
    /\ Chosen /\ NoTemplateInDocument
    /\ pc = "done" /\ tx = "committed"
    /\ duplicated_count = 2
    /\ Len(console) = 4

\* C8: the template found is the first view, in document order, whose name
\* equals the template name exactly; a template the script sets on a duplicate
\* is that view.
C8_FirstExactMatch ==
    /\ pc = "assign_template" =>
          LET matches == {id \in 1..Len(doc) : doc[id].name = template_name} IN
          IF matches = {}
          THEN new_template = InvalidId
          ELSE new_template \in matches /\ \A m \in matches : new_template <= m
    /\ \A k \in TemplateWrites :
          LET w == writes[k]
              matches0 == {id \in 1..Len(doc0) : doc0[id].name = template_name}
          IN  /\ w.ref \in matches0
              /\ \A m \in matches0 : w.ref <= m
              /\ tx \in {"started", "committed"} => doc[w.id].tmpl = w.ref

\* two views carry the template name; the first was assigned
C8_Witness ==
    /\ pc = "done" /\ tx = "committed"
    /\ TemplateWrites # {}
    /\ Cardinality({id \in 1..Len(doc0) : doc0[id].name = template_name}) = 2
    /\ \A k \in TemplateWrites : writes[k].ref = 1

\* C9: in a run that commits, the count equals the number of selected 3D
\* views, each of them has exactly one duplicate (a 3D view), nothing else was
\* created, and the summary dialog reports that count.
C9_CountIs3DViews ==
    tx = "committed" =>
        /\ duplicated_count = Len(Sel3D)
        /\ Len(committed) = Len(doc0) + Len(Sel3D)
        /\ \A j \in 1..Len(Sel3D) :
              LET dup == committed[Len(doc0) + j] IN
              /\ dup.is3D
              /\ \/ dup.name = CopyName(doc0[Sel3D[j]].name, 1)
                 \/ \E k \in 0..(MaxAttempts - 1) :
                       dup.name = ComputeNewName(prefix, doc0[Sel3D[j]].name) \o Stars(k)
        /\ pc = "done" => dialogs = <<SummaryDialog(Len(Sel3D))>>

\* a selection of one 3D view and one other view
C9_Witness ==
    /\ pc = "done" /\ tx = "committed"
    /\ Len(sel_views) = 2
    /\ Len(Sel3D) = 1
    /\ dialogs = <<SummaryDialog(1)>>

\* C10: every view of the document before the run keeps its name and its view
\* template, in the working document and in the committed one; the script sets
\* properties of views created in the run only.
C10_OnlyDuplicatesWritten ==
    /\ \A id \in 1..Len(doc0) :
          /\ id <= Len(doc) /\ doc[id] = doc0[id]
          /\ id <= Len(committed) /\ committed[id] = doc0[id]
    /\ \A k \in 1..Len(writes) : writes[k].id > Len(doc0)

\* the run renamed a duplicate and gave it the template, and committed
C10_Witness ==
    /\ pc = "done" /\ tx = "committed"
    /\ TemplateWrites # {}
    /\ \E id \in Created(doc) : NameWrites(id) # {}

====
